---- MODULE Spec2Model ----
(***************************************************************************)
(* intrusive_ptr<T> / intrusive_ref_counter<T> (solution.h).               *)
(*                                                                         *)
(* Objects carry an atomic counter; handles (intrusive_ptr instances) hold *)
(* one raw pointer each.  Threads execute handle operations.  The atomic   *)
(* read-modify-write on the counter is one step; the comparison of the     *)
(* value fetch_sub returned and the delete that follows it is a later step *)
(* of the same thread, so other threads interleave between them.  The      *)
(* temporary of the copy-and-swap assignments is a handle of its own: it   *)
(* is constructed, swapped with *this, and destroyed in three steps.       *)
(***************************************************************************)
EXTENDS Integers, FiniteSets, TLC

\* ------------------------------------------------------------------ bounds
\* Width of the modelled counter (std::atomic<size_t> scaled down).
CounterBits == 4
\* Width of the modelled unsigned int (scaled down, narrower than size_t
\* as on LP64 and LLP64 targets).
UIntBits == 3
\* References a caller may hold as raw pointers obtained from detach().
MaxDetached == 1
\* Destructor runs recorded per object (2 = "ran more than once").
MaxDtorRuns == 2

CounterMod == 2 ^ CounterBits
UIntMod == 2 ^ UIntBits

\* ------------------------------------------------------- the static world
Threads == {"t1", "t2"}
Objs == {"o1", "o2"}
Handles == {"h1", "h2", "h3"}
NoObj == "none"
NoHandle == "none"

\* struct Base : intrusive_ref_counter<Base>;  struct Derived : Base.
\* o1 was allocated as a Derived, o2 as a Base.
DynType(o) == IF o = "o1" THEN "Derived" ELSE "Base"
\* h1, h2 : intrusive_ptr<Base>;  h3 : intrusive_ptr<Derived>.
ElemType(h) == IF h = "h3" THEN "Derived" ELSE "Base"

\* std::is_convertible_v<Y*, T*>
Convertible(Y, T) == Y = T \/ (Y = "Derived" /\ T = "Base")

\* A raw pointer: the object it designates and the static type it is
\* viewed through.
Null == [obj |-> NoObj, view |-> "nullptr"]
Ptr(o, T) == [obj |-> o, view |-> T]
RawPtrs(T) == {Ptr(o, T) : o \in {x \in Objs : Convertible(DynType(x), T)}}

\* Mutant: the conversion loses the pointer.
StaticCastDrops(p, T) == Null

\* static_cast<T*>(p): the same object seen through T; null stays null.
StaticCast(p, T) == IF p = Null THEN Null ELSE [obj |-> p.obj, view |-> T]

\* Pointer comparison (ptr != r, a.get() == b.get()): after the implicit
\* conversion to a common type, the addresses are compared.
PtrEq(p, q) == p.obj = q.obj

VARIABLES
  threads,   \* the threads that run (fixed by the initial state)
  objState,  \* per object: "free" (not allocated), "live", "destroyed"
  count,     \* per object: ref_counter
  dtorRuns,  \* per object: how often delete ran on it
  hLive,     \* per handle: constructed and not yet destroyed
  ptr,       \* per handle: the ptr field
  detached,  \* per object: references held by callers as raw pointers
  pc,        \* per thread: position inside its current operation
  self,      \* per thread: *this of the assignment/reset in progress
  tmp,       \* per thread: ptr of the temporary intrusive_ptr
  obs,       \* per thread: the value fetch_sub returned
  victim,    \* per thread: the object Release was called on
  dtorAs,    \* per object: the type whose destructor delete ran
  world,     \* the build and the user's types (fixed by the initial state)
  hist       \* the operation started last, with the state it started in

vars == <<threads, objState, count, dtorRuns, hLive, ptr, detached,
          pc, self, tmp, obs, victim, dtorAs, world, hist>>

\* ------------------------------------------------------------ history
Tracing == Cardinality(threads) = 1
NoHist == [kind |-> "none"]
Snapshot ==
  [count |-> count, ptr |-> ptr, hLive |-> hLive, objState |-> objState,
   detached |-> detached, dtorRuns |-> dtorRuns]
NoAfter == [kind |-> "none", n |-> 0, other |-> NoHandle]
MovingKinds == {"move_ctor", "conv_move_ctor", "move_assign", "conv_move_assign"}
CopyKinds == {"copy_ctor", "copy_assign", "conv_copy_ctor", "conv_copy_assign"}
\* What the operation now starting follows on: a construction with
\* add_ref = false of the pointer the preceding detach() returned (n: the
\* counter before that detach); the destruction of the handle the preceding
\* operation constructed from a raw pointer with add_ref = true (n: the
\* counter before that construction); the destruction of one of the two
\* handles of the preceding copy (other: the second handle); the destruction
\* or reset() of the handle the preceding operation moved from (other: the
\* handle moved to) or detached from; the destruction or reset() of the
\* handle the preceding operation constructed with add_ref = false from a
\* pointer nobody held a reference through (n: the counter before it).
After(kind, dst, arg, acq) ==
  IF hist.kind = "detach" /\ kind = "raw_ctor" /\ ~acq /\ arg # Null
     /\ hist.arg.obj = arg.obj
  THEN [kind |-> "detach", n |-> hist.pre.count[arg.obj], other |-> hist.dst]
  ELSE IF hist.kind = "raw_ctor" /\ kind = "dtor" /\ hist.acq /\ hist.dst = dst
          /\ hist.arg # Null
  THEN [kind |-> "raw_ctor", n |-> hist.pre.count[hist.arg.obj], other |-> NoHandle]
  ELSE IF hist.kind \in CopyKinds /\ kind = "dtor" /\ hist.dst # hist.src
          /\ dst \in {hist.dst, hist.src} /\ hist.pre.ptr[hist.src] # Null
  THEN [kind |-> "copy", n |-> 0,
        other |-> IF dst = hist.dst THEN hist.src ELSE hist.dst]
  ELSE IF hist.kind \in MovingKinds /\ kind \in {"dtor", "reset"}
          /\ hist.src = dst /\ hist.dst # hist.src
          /\ hist.pre.ptr[hist.src] # Null
  THEN [kind |-> "moved_from", n |-> 0, other |-> hist.dst]
  ELSE IF hist.kind = "detach" /\ kind \in {"dtor", "reset"} /\ hist.dst = dst
          /\ hist.arg # Null
  THEN [kind |-> "detached_from", n |-> 0, other |-> NoHandle]
  ELSE IF hist.kind = "adopt_unheld" /\ kind \in {"dtor", "reset"}
          /\ hist.dst = dst
  THEN [kind |-> "adopt_unheld", n |-> hist.pre.count[hist.arg.obj],
        other |-> NoHandle]
  ELSE NoAfter
Record(kind, dst, src, arg, acq) ==
  IF Tracing
  THEN [kind |-> kind, dst |-> dst, src |-> src, arg |-> arg, acq |-> acq,
        pre |-> Snapshot, after |-> After(kind, dst, arg, acq)]
  ELSE NoHist

\* ------------------------------------------------- intrusive_ref_counter
\* intrusive_ref_counter(): ref_counter(0)
NewCounter == 0

\* Mutant: use_count returns the counter in its full width.
NarrowToUIntWide(v) == v

\* The implicit conversion of a size_t to the unsigned int returned.
NarrowToUInt(v) == v % UIntMod

\* use_count(): return ref_counter.load()  (size_t returned as unsigned int)
use_count(o) == NarrowToUInt(count[o])

\* intrusive_ptr_add_ref: p->ref_counter.fetch_add(1)
AddRef(cnt, o) == [cnt EXCEPT ![o] = (@ + 1) % CounterMod]

\* Mutant: a decrement that stops at 0.
FetchSubSaturating(cnt, o) == [cnt EXCEPT ![o] = IF @ = 0 THEN 0 ELSE @ - 1]

\* p->ref_counter.fetch_sub(1): the new counter
FetchSub(cnt, o) == [cnt EXCEPT ![o] = (@ + CounterMod - 1) % CounterMod]

\* Mutant: the test is made on the value after the decrement.
ReleaseDestroysOnZero(old) == old = 0

\* Mutant: any Release that found a non-zero counter deletes.
ReleaseDestroysNonZero(old) == old # 0

\* fetch_sub(1) == 1: the test that decides the delete
ReleaseDestroys(old) == old = 1

\* ------------------------------------------------------------ helpers
Idle(t) == t \in threads /\ pc[t] = "idle"

\* A handle another thread is in the middle of assigning to.
Busy(h) == \E u \in Threads : pc[u] # "idle" /\ self[u] = h

\* Some Release has found the object's last reference gone and has not
\* yet run delete.
Dying(o) == \E u \in Threads :
  pc[u] = "release" /\ victim[u] = o /\ ReleaseDestroys(obs[u])

\* A raw pointer a caller may legitimately pass with add_ref = true: the
\* object is allocated and its destruction has not begun.
RawValid(p) ==
  IF p = Null THEN TRUE ELSE objState[p.obj] = "live" /\ ~Dying(p.obj)

\* The caller's raw references after handing p to intrusive_ptr(p, false).
Adopt(p, add_ref) ==
  IF p # Null /\ ~add_ref THEN [detached EXCEPT ![p.obj] = @ - 1] ELSE detached

\* The caller may pass p with this add_ref flag: with add_ref = false it
\* hands over a reference it holds.
ArgOk(p, add_ref) ==
  /\ RawValid(p)
  /\ IF p # Null /\ ~add_ref THEN detached[p.obj] > 0 ELSE TRUE

ThreadIdle == [t \in Threads |-> "idle"]

TypeOK ==
  /\ threads \subseteq Threads
  /\ objState \in [Objs -> {"free", "live", "destroyed"}]
  /\ count \in [Objs -> 0 .. CounterMod - 1]
  /\ dtorRuns \in [Objs -> 0 .. MaxDtorRuns]
  /\ hLive \in [Handles -> BOOLEAN]
  /\ \A h \in Handles : ptr[h] = Null \/ ptr[h] \in RawPtrs(ElemType(h))
  /\ detached \in [Objs -> 0 .. UIntMod + 1]
  /\ dtorAs \in [Objs -> {"none", "Base", "Derived"}]
  /\ world \in [ndebug : BOOLEAN, virtualDtor : BOOLEAN]
  /\ pc \in [Threads -> {"idle", "swap", "dtor", "release"}]

InitWith(ths) ==
  /\ threads = ths
  /\ objState = [o \in Objs |-> "free"]
  /\ count = [o \in Objs |-> 0]
  /\ dtorRuns = [o \in Objs |-> 0]
  /\ hLive = [h \in Handles |-> FALSE]
  /\ ptr = [h \in Handles |-> Null]
  /\ detached = [o \in Objs |-> 0]
  /\ pc = ThreadIdle
  /\ self = [t \in Threads |-> NoHandle]
  /\ tmp = [t \in Threads |-> Null]
  /\ obs = [t \in Threads |-> 0]
  /\ victim = [t \in Threads |-> NoObj]
  /\ dtorAs = [o \in Objs |-> "none"]
  /\ hist = NoHist

\* assert is active (NDEBUG not defined) and Base has a virtual destructor.
DefaultWorld == [ndebug |-> FALSE, virtualDtor |-> TRUE]

\* Two threads, no history.
Init == InitWith(Threads) /\ world = DefaultWorld
\* One thread, every operation recorded with the state it started in.
SeqInit == InitWith({"t1"}) /\ world = DefaultWorld


\* get(): return ptr
get(h) == ptr[h]

\* explicit operator bool(): ptr != nullptr
Bool(h) == ptr[h] # Null

\* ---------------------------------------------------- steps shared by ops
\* Mutant: the add_ref flag is ignored and the reference always taken.
RawCtorCountAlways(p, add_ref) ==
  IF p # Null THEN AddRef(count, p.obj) ELSE count

\* Mutant: the constructor from a raw pointer never takes a reference.
RawCtorCountNever(p, add_ref) == count

\* intrusive_ptr(T* p, bool add_ref): if (p != nullptr && add_ref) add_ref(p)
RawCtorCount(p, add_ref) ==
  IF p # Null /\ add_ref THEN AddRef(count, p.obj) ELSE count

\* Mutant: the copy constructor copies the pointer and takes no reference.
CopyCtorCountNoAddRef(p) == count

\* intrusive_ptr(intrusive_ptr const& r): if (ptr != nullptr) add_ref(ptr)
CopyCtorCount(p) ==
  IF p # Null THEN AddRef(count, p.obj) ELSE count

\* Mutant: the swap overwrites one side and leaves the other.
SwapPtrsOneWay(a, b) == [ptr EXCEPT ![a] = ptr[b]]

\* std::swap(ptr, b.ptr) on two handles
SwapPtrs(a, b) == [ptr EXCEPT ![a] = ptr[b], ![b] = ptr[a]]

\* intrusive_ptr_release(p), first half: the atomic fetch_sub.
StartRelease(t, o) ==
  /\ count' = FetchSub(count, o)
  /\ obs' = [obs EXCEPT ![t] = count[o]]
  /\ victim' = [victim EXCEPT ![t] = o]
  /\ pc' = [pc EXCEPT ![t] = "release"]

\* The temporary of "intrusive_ptr(...).swap(*this)" has been constructed
\* holding p; the swap and its destructor follow.
BeginSwap(t, h, p) ==
  /\ pc' = [pc EXCEPT ![t] = "swap"]
  /\ self' = [self EXCEPT ![t] = h]
  /\ tmp' = [tmp EXCEPT ![t] = p]

\* Mutant: the moved-from handle keeps its pointer.
MovedFromKeeps(p) == p

\* r.ptr = nullptr: what a moved-from handle is left holding
MovedFrom(p) == Null

\* this != &r
NotSelf(h, r) == h # r

CanUse(t, h) == Idle(t) /\ hLive[h] /\ ~Busy(h)
CanMake(t, h) == Idle(t) /\ ~hLive[h]

\* --------------------------------------------------------- object creation
\* new Derived() / new Base(): intrusive_ref_counter() sets ref_counter(0)
New(t, o) ==
  /\ Idle(t)
  /\ objState[o] = "free"
  /\ objState' = [objState EXCEPT ![o] = "live"]
  /\ count' = [count EXCEPT ![o] = NewCounter]
  /\ hist' = Record("new", NoHandle, NoHandle, Ptr(o, DynType(o)), FALSE)
  /\ UNCHANGED <<threads, world, dtorAs, dtorRuns, hLive, ptr, detached, pc, self, tmp, obs, victim>>

\* ------------------------------------------------------------ constructors
\* intrusive_ptr()
DefaultCtor(t, h) ==
  /\ CanMake(t, h)
  /\ hLive' = [hLive EXCEPT ![h] = TRUE]
  /\ ptr' = [ptr EXCEPT ![h] = Null]
  /\ hist' = Record("default_ctor", h, NoHandle, Null, FALSE)
  /\ UNCHANGED <<threads, world, dtorAs, objState, count, dtorRuns, detached, pc, self, tmp, obs, victim>>

\* intrusive_ptr(T* p, bool add_ref = true)
RawCtor(t, h, p, add_ref) ==
  /\ CanMake(t, h)
  /\ p \in RawPtrs(ElemType(h)) \cup {Null}
  /\ ArgOk(p, add_ref)
  /\ hLive' = [hLive EXCEPT ![h] = TRUE]
  /\ ptr' = [ptr EXCEPT ![h] = p]
  /\ count' = RawCtorCount(p, add_ref)
  /\ detached' = Adopt(p, add_ref)
  /\ hist' = Record("raw_ctor", h, NoHandle, p, add_ref)
  /\ UNCHANGED <<threads, world, dtorAs, objState, dtorRuns, pc, self, tmp, obs, victim>>

\* intrusive_ptr(intrusive_ptr const& r)
CopyCtor(t, h, r) ==
  /\ CanMake(t, h)
  /\ CanUse(t, r)
  /\ ElemType(r) = ElemType(h)
  /\ hLive' = [hLive EXCEPT ![h] = TRUE]
  /\ ptr' = [ptr EXCEPT ![h] = ptr[r]]
  /\ count' = CopyCtorCount(ptr[r])
  /\ hist' = Record("copy_ctor", h, r, Null, TRUE)
  /\ UNCHANGED <<threads, world, dtorAs, objState, dtorRuns, detached, pc, self, tmp, obs, victim>>

\* intrusive_ptr(intrusive_ptr<Y> const& r), Y* convertible to T*
ConvCopyCtor(t, h, r) ==
  /\ CanMake(t, h)
  /\ CanUse(t, r)
  /\ ElemType(r) # ElemType(h)
  /\ Convertible(ElemType(r), ElemType(h))
  /\ hLive' = [hLive EXCEPT ![h] = TRUE]
  /\ ptr' = [ptr EXCEPT ![h] = StaticCast(ptr[r], ElemType(h))]
  /\ count' = CopyCtorCount(StaticCast(ptr[r], ElemType(h)))
  /\ hist' = Record("conv_copy_ctor", h, r, Null, TRUE)
  /\ UNCHANGED <<threads, world, dtorAs, objState, dtorRuns, detached, pc, self, tmp, obs, victim>>

\* intrusive_ptr(intrusive_ptr&& r)
MoveCtor(t, h, r) ==
  /\ CanMake(t, h)
  /\ CanUse(t, r)
  /\ ElemType(r) = ElemType(h)
  /\ hLive' = [hLive EXCEPT ![h] = TRUE]
  /\ ptr' = [ptr EXCEPT ![h] = ptr[r], ![r] = MovedFrom(ptr[r])]
  /\ hist' = Record("move_ctor", h, r, Null, FALSE)
  /\ UNCHANGED <<threads, world, dtorAs, objState, count, dtorRuns, detached, pc, self, tmp, obs, victim>>

\* intrusive_ptr(intrusive_ptr<Y>&& r), Y* convertible to T*
ConvMoveCtor(t, h, r) ==
  /\ CanMake(t, h)
  /\ CanUse(t, r)
  /\ ElemType(r) # ElemType(h)
  /\ Convertible(ElemType(r), ElemType(h))
  /\ hLive' = [hLive EXCEPT ![h] = TRUE]
  /\ ptr' = [ptr EXCEPT ![h] = StaticCast(ptr[r], ElemType(h)), ![r] = MovedFrom(ptr[r])]
  /\ hist' = Record("conv_move_ctor", h, r, Null, FALSE)
  /\ UNCHANGED <<threads, world, dtorAs, objState, count, dtorRuns, detached, pc, self, tmp, obs, victim>>

\* -------------------------------------------------------------- destructor
\* ~intrusive_ptr(): if (ptr != nullptr) intrusive_ptr_release(ptr)
Dtor(t, h) ==
  /\ CanUse(t, h)
  /\ hLive' = [hLive EXCEPT ![h] = FALSE]
  /\ ptr' = [ptr EXCEPT ![h] = Null]
  /\ IF ptr[h] # Null
     THEN StartRelease(t, ptr[h].obj)
     ELSE UNCHANGED <<count, obs, victim, pc>>
  /\ hist' = Record("dtor", h, NoHandle, Null, FALSE)
  /\ UNCHANGED <<threads, world, dtorAs, objState, dtorRuns, detached, self, tmp>>

\* ------------------------------------------------------------- assignment
\* Mutant: copy assignment that releases the old pointee first and takes
\* the reference on the new one afterwards:
\*   if (this != &r) { release(ptr); ptr = r.ptr; add_ref(ptr); }
CopyAssignReleaseFirst(t, h, r) ==
  /\ CanUse(t, h)
  /\ CanUse(t, r)
  /\ ElemType(r) = ElemType(h)
  /\ IF NotSelf(h, r)
     THEN /\ ptr' = [ptr EXCEPT ![h] = ptr[r]]
          /\ IF ptr[h] # Null
             THEN /\ count' = IF ptr[r] # Null
                              THEN AddRef(FetchSub(count, ptr[h].obj), ptr[r].obj)
                              ELSE FetchSub(count, ptr[h].obj)
                  /\ obs' = [obs EXCEPT ![t] = count[ptr[h].obj]]
                  /\ victim' = [victim EXCEPT ![t] = ptr[h].obj]
                  /\ pc' = [pc EXCEPT ![t] = "release"]
                  /\ self' = [self EXCEPT ![t] = h]
             ELSE /\ count' = CopyCtorCount(ptr[r])
                  /\ UNCHANGED <<obs, victim, pc, self>>
     ELSE UNCHANGED <<ptr, count, obs, victim, pc, self>>
  /\ hist' = Record("copy_assign", h, r, Null, TRUE)
  /\ UNCHANGED <<threads, world, dtorAs, objState, dtorRuns, hLive, detached, tmp>>

\* operator=(intrusive_ptr const& r):
\*   if (this != &r) intrusive_ptr(r).swap(*this)
CopyAssign(t, h, r) ==
  /\ CanUse(t, h)
  /\ CanUse(t, r)
  /\ ElemType(r) = ElemType(h)
  /\ IF NotSelf(h, r)
     THEN /\ count' = CopyCtorCount(ptr[r])
          /\ BeginSwap(t, h, ptr[r])
     ELSE UNCHANGED <<count, pc, self, tmp>>
  /\ hist' = Record("copy_assign", h, r, Null, TRUE)
  /\ UNCHANGED <<threads, world, dtorAs, objState, dtorRuns, hLive, ptr, detached, obs, victim>>

\* operator=(intrusive_ptr<Y> const& r): intrusive_ptr(r).swap(*this)
ConvCopyAssign(t, h, r) ==
  /\ CanUse(t, h)
  /\ CanUse(t, r)
  /\ ElemType(r) # ElemType(h)
  /\ Convertible(ElemType(r), ElemType(h))
  /\ count' = CopyCtorCount(StaticCast(ptr[r], ElemType(h)))
  /\ BeginSwap(t, h, StaticCast(ptr[r], ElemType(h)))
  /\ hist' = Record("conv_copy_assign", h, r, Null, TRUE)
  /\ UNCHANGED <<threads, world, dtorAs, objState, dtorRuns, hLive, ptr, detached, obs, victim>>

\* operator=(T* r): if (ptr != r) intrusive_ptr(r).swap(*this)
RawAssign(t, h, p) ==
  /\ CanUse(t, h)
  /\ p \in RawPtrs(ElemType(h)) \cup {Null}
  /\ ArgOk(p, TRUE)
  /\ IF ~PtrEq(ptr[h], p)
     THEN /\ count' = RawCtorCount(p, TRUE)
          /\ BeginSwap(t, h, p)
     ELSE UNCHANGED <<count, pc, self, tmp>>
  /\ hist' = Record("raw_assign", h, NoHandle, p, TRUE)
  /\ UNCHANGED <<threads, world, dtorAs, objState, dtorRuns, hLive, ptr, detached, obs, victim>>

\* Mutant: move assignment without copy-and-swap and without the self test:
\*   release(ptr); ptr = r.ptr; r.ptr = nullptr
MoveAssignNaive(t, h, r) ==
  /\ CanUse(t, h)
  /\ CanUse(t, r)
  /\ ElemType(r) = ElemType(h)
  /\ IF ptr[h] # Null
     THEN StartRelease(t, ptr[h].obj)
     ELSE UNCHANGED <<count, obs, victim, pc>>
  /\ ptr' = [ptr EXCEPT ![h] = ptr[r], ![r] = Null]
  /\ hist' = Record("move_assign", h, r, Null, FALSE)
  /\ UNCHANGED <<threads, world, dtorAs, objState, dtorRuns, hLive, detached, self, tmp>>

\* operator=(intrusive_ptr&& r):
\*   if (this != &r) intrusive_ptr(std::move(r)).swap(*this)
MoveAssign(t, h, r) ==
  /\ CanUse(t, h)
  /\ CanUse(t, r)
  /\ ElemType(r) = ElemType(h)
  /\ IF NotSelf(h, r)
     THEN /\ ptr' = [ptr EXCEPT ![r] = MovedFrom(ptr[r])]
          /\ BeginSwap(t, h, ptr[r])
     ELSE UNCHANGED <<ptr, pc, self, tmp>>
  /\ hist' = Record("move_assign", h, r, Null, FALSE)
  /\ UNCHANGED <<threads, world, dtorAs, objState, count, dtorRuns, hLive, detached, obs, victim>>

\* operator=(intrusive_ptr<Y>&& r): intrusive_ptr(std::move(r)).swap(*this)
ConvMoveAssign(t, h, r) ==
  /\ CanUse(t, h)
  /\ CanUse(t, r)
  /\ ElemType(r) # ElemType(h)
  /\ Convertible(ElemType(r), ElemType(h))
  /\ ptr' = [ptr EXCEPT ![r] = MovedFrom(ptr[r])]
  /\ BeginSwap(t, h, StaticCast(ptr[r], ElemType(h)))
  /\ hist' = Record("conv_move_assign", h, r, Null, FALSE)
  /\ UNCHANGED <<threads, world, dtorAs, objState, count, dtorRuns, hLive, detached, obs, victim>>

\* ------------------------------------------------------------------ reset
\* reset(): if (ptr != nullptr) intrusive_ptr().swap(*this)
Reset0(t, h) ==
  /\ CanUse(t, h)
  /\ IF ptr[h] # Null
     THEN BeginSwap(t, h, Null)
     ELSE UNCHANGED <<pc, self, tmp>>
  /\ hist' = Record("reset", h, NoHandle, Null, FALSE)
  /\ UNCHANGED <<threads, world, dtorAs, objState, count, dtorRuns, hLive, ptr, detached, obs, victim>>

\* reset(T* r): if (ptr != r) intrusive_ptr(r).swap(*this)
Reset1(t, h, p) ==
  /\ CanUse(t, h)
  /\ p \in RawPtrs(ElemType(h)) \cup {Null}
  /\ ArgOk(p, TRUE)
  /\ IF ~PtrEq(ptr[h], p)
     THEN /\ count' = RawCtorCount(p, TRUE)
          /\ BeginSwap(t, h, p)
     ELSE UNCHANGED <<count, pc, self, tmp>>
  /\ hist' = Record("reset_ptr", h, NoHandle, p, TRUE)
  /\ UNCHANGED <<threads, world, dtorAs, objState, dtorRuns, hLive, ptr, detached, obs, victim>>

\* reset(T* r, bool add_ref): intrusive_ptr(r, add_ref).swap(*this)
Reset2(t, h, p, add_ref) ==
  /\ CanUse(t, h)
  /\ p \in RawPtrs(ElemType(h)) \cup {Null}
  /\ ArgOk(p, add_ref)
  /\ count' = RawCtorCount(p, add_ref)
  /\ detached' = Adopt(p, add_ref)
  /\ BeginSwap(t, h, p)
  /\ hist' = Record("reset_ptr_flag", h, NoHandle, p, add_ref)
  /\ UNCHANGED <<threads, world, dtorAs, objState, dtorRuns, hLive, ptr, obs, victim>>

\* ------------------------------------------------------- detach and swap
\* detach(): T* old = ptr; ptr = nullptr; return old
\* The caller now holds the returned reference as a raw pointer.
Detach(t, h) ==
  /\ CanUse(t, h)
  /\ IF ptr[h] # Null THEN detached[ptr[h].obj] < MaxDetached ELSE TRUE
  /\ ptr' = [ptr EXCEPT ![h] = Null]
  /\ detached' = IF ptr[h] # Null
                 THEN [detached EXCEPT ![ptr[h].obj] = @ + 1]
                 ELSE detached
  /\ hist' = Record("detach", h, NoHandle, ptr[h], FALSE)
  /\ UNCHANGED <<threads, world, dtorAs, objState, count, dtorRuns, hLive, pc, self, tmp, obs, victim>>

\* a.swap(b): std::swap(ptr, b.ptr)
Swap(t, a, b) ==
  /\ CanUse(t, a)
  /\ CanUse(t, b)
  /\ ElemType(a) = ElemType(b)
  /\ ptr' = SwapPtrs(a, b)
  /\ hist' = Record("swap", a, b, Null, FALSE)
  /\ UNCHANGED <<threads, world, dtorAs, objState, count, dtorRuns, hLive, detached, pc, self, tmp, obs, victim>>

\* swap(a, b): a.swap(b)
FreeSwap(t, a, b) ==
  /\ CanUse(t, a)
  /\ CanUse(t, b)
  /\ ElemType(a) = ElemType(b)
  /\ ptr' = SwapPtrs(a, b)
  /\ hist' = Record("free_swap", a, b, Null, FALSE)
  /\ UNCHANGED <<threads, world, dtorAs, objState, count, dtorRuns, hLive, detached, pc, self, tmp, obs, victim>>

\* The caller releases a reference it holds as a raw pointer (from detach):
\* intrusive_ptr_release(p)
ManualRelease(t, o) ==
  /\ Idle(t)
  /\ detached[o] > 0
  /\ detached' = [detached EXCEPT ![o] = @ - 1]
  /\ StartRelease(t, o)
  /\ hist' = Record("release", NoHandle, NoHandle, Ptr(o, "Base"), FALSE)
  /\ UNCHANGED <<threads, world, dtorAs, objState, dtorRuns, hLive, ptr, self, tmp>>

\* ------------------------------------------- the later steps of an operation
\* intrusive_ptr(...).swap(*this): the temporary and *this exchange ptr
SwapTmp(t) ==
  /\ t \in threads
  /\ pc[t] = "swap"
  /\ ptr' = [ptr EXCEPT ![self[t]] = tmp[t]]
  /\ tmp' = [tmp EXCEPT ![t] = ptr[self[t]]]
  /\ pc' = [pc EXCEPT ![t] = "dtor"]
  /\ UNCHANGED <<threads, world, dtorAs, objState, count, dtorRuns, hLive, detached, self, obs, victim, hist>>

\* End of the full expression: ~intrusive_ptr() of the temporary
DtorTmp(t) ==
  /\ t \in threads
  /\ pc[t] = "dtor"
  /\ tmp' = [tmp EXCEPT ![t] = Null]
  /\ IF tmp[t] # Null
     THEN /\ StartRelease(t, tmp[t].obj)
          /\ UNCHANGED self
     ELSE /\ pc' = [pc EXCEPT ![t] = "idle"]
          /\ self' = [self EXCEPT ![t] = NoHandle]
          /\ UNCHANGED <<count, obs, victim>>
  /\ UNCHANGED <<threads, world, dtorAs, objState, dtorRuns, hLive, ptr, detached, hist>>

\* The type the counter is declared with: both classes derive from
\* intrusive_ref_counter<Base>, so Release is instantiated with Derived = Base.
CounterType(o) == "Base"

\* Mutant: delete runs the destructor of the static type only, as if no
\* destructor were virtual.
DeleteOutcomesStatic(o) == {CounterType(o)}

\* delete static_cast<const Derived*>(p): the destructor that runs.  With a
\* virtual destructor (or when the object is of the counter's type) it is
\* the most-derived one.  Otherwise deleting through the base is undefined:
\* the base destructor alone runs, or the program crashes.
DeleteOutcomes(o) ==
  IF world.virtualDtor \/ DynType(o) = CounterType(o)
  THEN {DynType(o)}
  ELSE {CounterType(o), "crash"}

\* The thread leaves intrusive_ptr_release and the operation that called it.
ReleaseReturns(t) ==
  /\ pc' = [pc EXCEPT ![t] = "idle"]
  /\ self' = [self EXCEPT ![t] = NoHandle]
  /\ obs' = [obs EXCEPT ![t] = 0]
  /\ victim' = [victim EXCEPT ![t] = NoObj]
  /\ UNCHANGED threads

\* The process has ended abnormally: no thread takes another step.
Crash == threads' = {}

\* intrusive_ptr_release(p), second half:
\*   if (<fetch_sub's result> == 1) delete static_cast<const Derived*>(p)
ReleaseFinish(t) ==
  /\ t \in threads
  /\ pc[t] = "release"
  /\ IF ReleaseDestroys(obs[t])
     THEN \E out \in DeleteOutcomes(victim[t]) :
            IF out = "crash"
            THEN /\ Crash
                 /\ UNCHANGED <<objState, dtorRuns, dtorAs, pc, self, obs, victim>>
            ELSE /\ objState' = [objState EXCEPT ![victim[t]] = "destroyed"]
                 /\ dtorRuns' = [dtorRuns EXCEPT
                      ![victim[t]] = IF @ < MaxDtorRuns THEN @ + 1 ELSE @]
                 /\ dtorAs' = [dtorAs EXCEPT ![victim[t]] = out]
                 /\ ReleaseReturns(t)
     ELSE /\ UNCHANGED <<objState, dtorRuns, dtorAs>>
          /\ ReleaseReturns(t)
  /\ UNCHANGED <<world, count, hLive, ptr, detached, tmp, hist>>

\* ------------------------------------------------------------------- Next
\* What an observer (dereference, comparison) leaves in the history: the
\* operands, the value or pointer it produced and how it ended.
Observed(kind, dst, src, arg, res) ==
  IF Tracing
  THEN [kind |-> kind, dst |-> dst, src |-> src, arg |-> arg, acq |-> TRUE,
        res |-> res, pre |-> Snapshot, after |-> NoAfter]
  ELSE NoHist

\* Mutant: the assertion is never evaluated.
\* assert(ptr != nullptr): the ways the check can end for pointer p.
\* With NDEBUG the macro expands to nothing.
AssertCompiledOut(p) == {"passed"}
AssertNonNull(p) ==
  IF world.ndebug \/ p # Null THEN {"passed"} ELSE {"assert_failed"}

\* The observer ends with outcome res: an assertion failure or a crash
\* terminates the program, otherwise nothing but the history changes.
ObserverEnds(res) ==
  /\ IF res \in {"assert_failed", "crashed"} THEN Crash ELSE UNCHANGED threads
  /\ UNCHANGED <<world, dtorAs, objState, count, dtorRuns, hLive, ptr,
                 detached, pc, self, tmp, obs, victim>>

\* operator*():  assert(ptr != nullptr); return *ptr;
\* Binding a reference to *ptr with ptr null is undefined: the call may
\* return or crash.
DerefStar(t, h) ==
  /\ CanUse(t, h)
  /\ \E chk \in AssertNonNull(ptr[h]) :
       \E res \in (IF chk = "assert_failed" THEN {"assert_failed"}
                   ELSE IF ptr[h] = Null THEN {"returned", "crashed"}
                   ELSE {"returned"}) :
         /\ hist' = Observed("deref_star", h, NoHandle, ptr[h], res)
         /\ ObserverEnds(res)

\* operator->():  assert(ptr != nullptr); return ptr;
DerefArrow(t, h) ==
  /\ CanUse(t, h)
  /\ \E chk \in AssertNonNull(ptr[h]) :
       LET res == IF chk = "assert_failed" THEN "assert_failed" ELSE "returned"
       IN /\ hist' = Observed("deref_arrow", h, NoHandle, ptr[h], res)
          /\ ObserverEnds(res)

\* The composite pointer type two pointer operands are converted to.
CommonType(p, q) ==
  IF p.view = "Derived" /\ q.view = "Derived" THEN "Derived" ELSE "Base"

\* Mutant: the operands are compared as they are, without conversion.
RawEqNoConv(p, q) == p = q

\* Built-in == on a T* and a U*: both are converted to the composite type
\* and the addresses compared.
RawEq(p, q) ==
  StaticCast(p, CommonType(p, q)) = StaticCast(q, CommonType(p, q))

\* operator==(intrusive_ptr<T> const& a, intrusive_ptr<U> const& b)
EqHandles(t, a, b) ==
  /\ CanUse(t, a)
  /\ CanUse(t, b)
  /\ hist' = Observed("eq_hh", a, b, Null, RawEq(get(a), get(b)))
  /\ ObserverEnds("returned")

\* operator!=(intrusive_ptr<T> const& a, intrusive_ptr<U> const& b)
NeHandles(t, a, b) ==
  /\ CanUse(t, a)
  /\ CanUse(t, b)
  /\ hist' = Observed("ne_hh", a, b, Null, ~RawEq(get(a), get(b)))
  /\ ObserverEnds("returned")

\* operator==(intrusive_ptr<T> const& a, U* b)
EqHandleRaw(t, a, p) ==
  /\ CanUse(t, a)
  /\ RawValid(p)
  /\ hist' = Observed("eq_hr", a, NoHandle, p, RawEq(get(a), p))
  /\ ObserverEnds("returned")

\* operator!=(intrusive_ptr<T> const& a, U* b)
NeHandleRaw(t, a, p) ==
  /\ CanUse(t, a)
  /\ RawValid(p)
  /\ hist' = Observed("ne_hr", a, NoHandle, p, ~RawEq(get(a), p))
  /\ ObserverEnds("returned")

\* operator==(T* a, intrusive_ptr<U> const& b)
EqRawHandle(t, p, b) ==
  /\ CanUse(t, b)
  /\ RawValid(p)
  /\ hist' = Observed("eq_rh", b, NoHandle, p, RawEq(p, get(b)))
  /\ ObserverEnds("returned")

\* operator!=(T* a, intrusive_ptr<U> const& b)
NeRawHandle(t, p, b) ==
  /\ CanUse(t, b)
  /\ RawValid(p)
  /\ hist' = Observed("ne_rh", b, NoHandle, p, ~RawEq(p, get(b)))
  /\ ObserverEnds("returned")

\* use_count() on object o: an acquire load, narrowed on return.
UseCount(t, o) ==
  /\ Idle(t)
  /\ objState[o] = "live"
  /\ hist' = Observed("use_count", NoHandle, NoHandle, Ptr(o, CounterType(o)),
                      use_count(o))
  /\ ObserverEnds("returned")

\* intrusive_ptr_add_ref(p) called by the program itself: the caller
\* holds one more raw reference.
ManualAddRef(t, o) ==
  /\ Idle(t)
  /\ objState[o] = "live"
  /\ detached[o] <= UIntMod
  /\ count' = AddRef(count, o)
  /\ detached' = [detached EXCEPT ![o] = @ + 1]
  /\ hist' = Record("add_ref", NoHandle, NoHandle, Ptr(o, CounterType(o)), TRUE)
  /\ UNCHANGED <<threads, world, dtorAs, objState, dtorRuns, hLive, ptr, pc,
                 self, tmp, obs, victim>>

\* intrusive_ref_counter(const intrusive_ref_counter& v) : ref_counter(0)
\* Object o is constructed as a copy of the live object v.
CounterCopyCtor(t, o, v) ==
  /\ Idle(t)
  /\ objState[o] = "free"
  /\ objState[v] = "live"
  /\ objState' = [objState EXCEPT ![o] = "live"]
  /\ count' = [count EXCEPT ![o] = NewCounter]
  /\ hist' = Observed("counter_copy", NoHandle, NoHandle,
                      Ptr(o, CounterType(o)), v)
  /\ UNCHANGED <<threads, world, dtorAs, dtorRuns, hLive, ptr, detached, pc,
                 self, tmp, obs, victim>>

\* intrusive_ref_counter& operator=(const intrusive_ref_counter& v) {}
\* The body is empty and control flows off the end of a function that
\* returns a reference: undefined behaviour. The call may come back with
\* nothing changed, may trap, or may run on into whatever code follows,
\* which can leave any value in the counter of *this.
AssignOutcomes == {"returned", "crashed", "clobbered"}
CounterAssign(t, a, v) ==
  /\ Idle(t)
  /\ objState[a] = "live"
  /\ objState[v] = "live"
  /\ \E out \in AssignOutcomes :
       /\ hist' = Observed("counter_assign", NoHandle, NoHandle,
                           Ptr(a, CounterType(a)), v)
       /\ IF out = "crashed" THEN Crash ELSE UNCHANGED threads
       /\ IF out = "clobbered"
          THEN \E n \in 0 .. CounterMod - 1 : count' = [count EXCEPT ![a] = n]
          ELSE UNCHANGED count
  /\ UNCHANGED <<world, dtorAs, objState, dtorRuns, hLive, ptr, detached, pc,
                 self, tmp, obs, victim>>

\* intrusive_ptr(T* p, bool add_ref = true) with add_ref = false on an
\* object nobody holds a reference to: the counter is 0 and stays 0.
AdoptUnheld(t, h, p) ==
  /\ CanMake(t, h)
  /\ p \in RawPtrs(ElemType(h))
  /\ objState[p.obj] = "live"
  /\ count[p.obj] = 0
  /\ detached[p.obj] = 0
  /\ hLive' = [hLive EXCEPT ![h] = TRUE]
  /\ ptr' = [ptr EXCEPT ![h] = p]
  /\ count' = RawCtorCount(p, FALSE)
  /\ hist' = Record("adopt_unheld", h, NoHandle, p, FALSE)
  /\ UNCHANGED <<threads, world, dtorAs, objState, dtorRuns, detached, pc,
                 self, tmp, obs, victim>>

AnyPtr == UNION {RawPtrs(T) : T \in {"Base", "Derived"}} \cup {Null}

Next ==
  \E t \in Threads :
    \/ \E o \in Objs : New(t, o)
    \/ \E h \in Handles : DefaultCtor(t, h)
    \/ \E h \in Handles, p \in AnyPtr, a \in BOOLEAN : RawCtor(t, h, p, a)
    \/ \E h, r \in Handles : CopyCtor(t, h, r)
    \/ \E h, r \in Handles : ConvCopyCtor(t, h, r)
    \/ \E h, r \in Handles : MoveCtor(t, h, r)
    \/ \E h, r \in Handles : ConvMoveCtor(t, h, r)
    \/ \E h \in Handles : Dtor(t, h)
    \/ \E h, r \in Handles : CopyAssign(t, h, r)
    \/ \E h, r \in Handles : ConvCopyAssign(t, h, r)
    \/ \E h \in Handles, p \in AnyPtr : RawAssign(t, h, p)
    \/ \E h, r \in Handles : MoveAssign(t, h, r)
    \/ \E h, r \in Handles : ConvMoveAssign(t, h, r)
    \/ \E h \in Handles : Reset0(t, h)
    \/ \E h \in Handles, p \in AnyPtr : Reset1(t, h, p)
    \/ \E h \in Handles, p \in AnyPtr, a \in BOOLEAN : Reset2(t, h, p, a)
    \/ \E h \in Handles : Detach(t, h)
    \/ \E a, b \in Handles : Swap(t, a, b)
    \/ \E a, b \in Handles : FreeSwap(t, a, b)
    \/ \E o \in Objs : ManualRelease(t, o)
    \/ SwapTmp(t)
    \/ DtorTmp(t)
    \/ ReleaseFinish(t)

\* Threads t1 and t2 interleave at every step.
Spec == Init /\ [][Next]_vars
\* One thread; hist records each operation and the state it started in.
SeqSpec == SeqInit /\ [][Next]_vars

\* A single-threaded program that builds handles and then dereferences
\* and compares them, compiled with or without NDEBUG.
ObsInit ==
  /\ InitWith({"t1"})
  /\ world \in {[ndebug |-> d, virtualDtor |-> TRUE] : d \in BOOLEAN}

ObsNext ==
  \E t \in Threads :
    \/ \E o \in Objs : New(t, o)
    \/ \E h \in Handles : DefaultCtor(t, h)
    \/ \E h \in Handles, p \in AnyPtr : RawCtor(t, h, p, TRUE)
    \/ \E h \in Handles : Dtor(t, h)
    \/ ReleaseFinish(t)
    \/ \E h \in Handles : DerefStar(t, h)
    \/ \E h \in Handles : DerefArrow(t, h)
    \/ \E a, b \in Handles : EqHandles(t, a, b)
    \/ \E a, b \in Handles : NeHandles(t, a, b)
    \/ \E a \in Handles, p \in AnyPtr : EqHandleRaw(t, a, p)
    \/ \E a \in Handles, p \in AnyPtr : NeHandleRaw(t, a, p)
    \/ \E b \in Handles, p \in AnyPtr : EqRawHandle(t, p, b)
    \/ \E b \in Handles, p \in AnyPtr : NeRawHandle(t, p, b)

ObsSpec == ObsInit /\ [][ObsNext]_vars

\* A single-threaded program that copies and assigns counted objects,
\* some of them held by a handle.
AssignNext ==
  \E t \in Threads :
    \/ \E o \in Objs : New(t, o)
    \/ \E p \in AnyPtr : RawCtor(t, "h1", p, TRUE)
    \/ Dtor(t, "h1")
    \/ ReleaseFinish(t)
    \/ \E o, v \in Objs : CounterCopyCtor(t, o, v)
    \/ \E a, v \in Objs : CounterAssign(t, a, v)

AssignSpec == SeqInit /\ [][AssignNext]_vars

\* A single-threaded program that works on the counters directly: it
\* calls add_ref, release and use_count itself, and hands objects nobody
\* holds to handles without taking a reference.
CounterNext ==
  \E t \in Threads :
    \/ \E o \in Objs : New(t, o)
    \/ \E o \in Objs : ManualAddRef(t, o)
    \/ \E o \in Objs : ManualRelease(t, o)
    \/ \E o \in Objs : UseCount(t, o)
    \/ \E p \in AnyPtr : AdoptUnheld(t, "h1", p)
    \/ Dtor(t, "h1")
    \/ Reset0(t, "h1")
    \/ SwapTmp(t)
    \/ DtorTmp(t)
    \/ ReleaseFinish(t)

CounterSpec == SeqInit /\ [][CounterNext]_vars

\* One thread, and the user's class hierarchy either declares the
\* destructor of the type naming the counter virtual or does not.
DtorInit ==
  /\ InitWith({"t1"})
  /\ world \in {[ndebug |-> FALSE, virtualDtor |-> v] : v \in BOOLEAN}

\* Handles to Base and to Derived are made from raw pointers and from
\* each other, and destroyed or reset.
DtorNext ==
  \E t \in Threads :
    \/ \E o \in Objs : New(t, o)
    \/ \E h \in Handles, p \in AnyPtr : RawCtor(t, h, p, TRUE)
    \/ \E h, r \in Handles : ConvCopyCtor(t, h, r)
    \/ \E h, r \in Handles : ConvMoveCtor(t, h, r)
    \/ \E h \in Handles : Dtor(t, h)
    \/ \E h \in Handles : Reset0(t, h)
    \/ SwapTmp(t)
    \/ DtorTmp(t)
    \/ ReleaseFinish(t)

DtorSpec == DtorInit /\ [][DtorNext]_vars

\* ================================================================ claims
\* The intrusive_ptr instances that hold o: the live handles and the
\* temporaries of assignments in progress.
HandlesOn(o) ==
  Cardinality({h \in Handles : hLive[h] /\ ptr[h].obj = o})
  + Cardinality({t \in Threads : tmp[t].obj = o})

\* A Release on o has done its fetch_sub and not yet its comparison.
Releasing(t, o) == pc[t] = "release" /\ victim[t] = o

\* Every thread is between operations.
Done == \A t \in Threads : pc[t] = "idle"

\* C1: while an object has not been destroyed, its counter equals the
\* number of handles holding it plus the number of references detached
\* from handles and not yet re-adopted or released.
C1_CountIsHolders ==
  \A o \in Objs :
    objState[o] = "live" => use_count(o) = HandlesOn(o) + detached[o]

\* Reached: an object held by two handles and by one detached reference.
C1_Witness ==
  \E o \in Objs :
    /\ objState[o] = "live"
    /\ detached[o] = 1
    /\ Cardinality({h \in Handles : hLive[h] /\ ptr[h].obj = o}) = 2
    /\ use_count(o) = 3

\* C2: when the last references to an object are released by concurrent
\* threads, the Release that ends with no reference left finds the object
\* destroyed exactly once and its counter at 0, whichever thread finishes
\* first; no object is ever deleted twice.
C2_ConcurrentRelease ==
  [][\A t \in Threads, o \in Objs :
       (pc[t] = "release" /\ pc'[t] = "idle" /\ victim[t] = o) =>
           /\ dtorRuns'[o] <= 1
           /\ (/\ HandlesOn(o)' = 0
               /\ detached'[o] = 0
               /\ \A u \in Threads : ~Releasing(u, o)')
              => /\ count'[o] = 0
                 /\ objState'[o] = "destroyed"
                 /\ dtorRuns'[o] = 1]_vars

\* Reached: two handles held the object, both threads have decremented
\* (one saw 2, the other 1), the thread that saw 1 has already deleted the
\* object and the other has yet to compare.
C2_Witness ==
  \E o \in Objs :
    /\ Releasing("t2", o) /\ obs["t2"] = 2
    /\ pc["t1"] = "idle"
    /\ objState[o] = "destroyed"
    /\ dtorRuns[o] = 1
    /\ HandlesOn(o) = 0 /\ detached[o] = 0

\* C3: the object a live handle (or an assignment's temporary) points to
\* has not been destroyed, under every interleaving.
C3_NoDangling ==
  /\ \A h \in Handles :
       (hLive[h] /\ ptr[h] # Null) => objState[ptr[h].obj] = "live"
  /\ \A t \in Threads :
       tmp[t] # Null => objState[tmp[t].obj] = "live"

\* Reached: a handle holds an object while another thread is inside a
\* Release on that object.
C3_Witness ==
  \E h \in Handles, t \in Threads :
    /\ hLive[h] /\ ptr[h] # Null
    /\ Releasing(t, ptr[h].obj)
    /\ objState[ptr[h].obj] = "live"

\* C4: the fetch_sub of a Release changes only the counter, returning the
\* value it had; the Release then deletes the object iff that value was 1
\* and otherwise changes nothing; an object is destroyed only by a Release
\* finishing, and at most once.
C4_ReleaseDestroysOnOne ==
  [][/\ \A t \in Threads :
          (pc[t] # "release" /\ pc'[t] = "release") =>
            /\ obs'[t] = count[victim'[t]]
            /\ count'[victim'[t]] = (count[victim'[t]] + CounterMod - 1) % CounterMod
            /\ \A o \in Objs \ {victim'[t]} : count'[o] = count[o]
            /\ objState' = objState /\ dtorRuns' = dtorRuns
     /\ \A t \in Threads :
          (pc[t] = "release" /\ pc'[t] = "idle") =>
            /\ count' = count /\ ptr' = ptr /\ hLive' = hLive
            /\ detached' = detached
            /\ \A o \in Objs \ {victim[t]} :
                 objState'[o] = objState[o] /\ dtorRuns'[o] = dtorRuns[o]
            /\ IF obs[t] = 1
               THEN /\ objState[victim[t]] = "live"
                    /\ objState'[victim[t]] = "destroyed"
                    /\ dtorRuns'[victim[t]] = 1
               ELSE /\ objState'[victim[t]] = objState[victim[t]]
                    /\ dtorRuns'[victim[t]] = dtorRuns[victim[t]]
     /\ \A o \in Objs :
          (objState'[o] = "destroyed" /\ objState[o] # "destroyed") =>
            \E t \in Threads : Releasing(t, o) /\ pc'[t] = "idle"
     /\ \A o \in Objs : dtorRuns'[o] <= 1]_vars

\* Reached: one Release has destroyed an object, and a Release that
\* observed 2 on another object is about to finish without deleting it.
C4_Witness ==
  \E o, q \in Objs, t \in Threads :
    /\ objState[o] = "destroyed" /\ dtorRuns[o] = 1
    /\ Releasing(t, q) /\ obs[t] = 2 /\ objState[q] = "live"

\* ------------------------------------------- claims about one operation
\* (checked under SeqSpec, where hist holds the operation and its pre-state)
OpDone(kinds) == Done /\ hist.kind \in kinds

\* The object the source handle held when the operation started.
SrcObj == hist.pre.ptr[hist.src].obj
\* The object the destination handle held when the operation started.
DstObj == hist.pre.ptr[hist.dst].obj

\* The second half of C5: destroying one of the two handles of the copy
\* just made takes one reference, does not destroy the object and leaves
\* the other handle as it was.
C5_DestroyOne ==
  (OpDone({"dtor"}) /\ hist.after.kind = "copy") =>
    LET g == hist.after.other
        o == hist.pre.ptr[g].obj
    IN /\ DstObj = o
       /\ count[o] = hist.pre.count[o] - 1
       /\ objState[o] = "live"
       /\ hLive[g] /\ Bool(g) /\ get(g) = hist.pre.ptr[g]

\* C5 as stated: copying a non-null h1 into another handle h2, by
\* construction or by assignment, raises the counter of h1's pointee by
\* exactly 1 and makes h2.get() == h1.get(); destroying either handle
\* afterwards lowers it by 1 and leaves the other handle and the object.
C5_Original ==
  /\ (OpDone({"copy_ctor", "copy_assign"}) /\ hist.dst # hist.src
      /\ hist.pre.ptr[hist.src] # Null) =>
       /\ count[SrcObj] = hist.pre.count[SrcObj] + 1
       /\ get(hist.dst) = get(hist.src)
       /\ get(hist.src) = hist.pre.ptr[hist.src]
  /\ C5_DestroyOne

\* C5 as amended: the counter rises by exactly 1 unless h2 already held
\* h1's pointee when it was assigned to; then the assignment releases the
\* reference h2 held and the counter is unchanged.
C5_CopyAddsOne ==
  /\ (OpDone({"copy_ctor", "copy_assign"}) /\ hist.dst # hist.src
      /\ hist.pre.ptr[hist.src] # Null) =>
       /\ count[SrcObj] = hist.pre.count[SrcObj]
            + (IF hist.kind = "copy_assign" /\ DstObj = SrcObj THEN 0 ELSE 1)
       /\ get(hist.dst) = get(hist.src)
       /\ get(hist.src) = hist.pre.ptr[hist.src]
       /\ objState[SrcObj] = "live"
  /\ C5_DestroyOne

\* Reached: h2 held another object, was copy-assigned from h1, and the
\* counter of h1's pointee went from 1 to 2.
C5_Witness ==
  /\ OpDone({"copy_assign"}) /\ hist.dst # hist.src
  /\ hist.pre.ptr[hist.src] # Null
  /\ hist.pre.ptr[hist.dst] # Null /\ DstObj # SrcObj
  /\ hist.pre.count[SrcObj] = 1 /\ count[SrcObj] = 2
  /\ get(hist.dst) = get(hist.src)

MoveKinds == {"move_ctor", "conv_move_ctor", "move_assign", "conv_move_assign"}
MoveAssignKinds == {"move_assign", "conv_move_assign"}

\* What C6 says of the handles, and of the reference h2 held to another
\* object: h1 is null, h2 holds o, and h2's old reference was released once.
C6_Handles ==
  (OpDone(MoveKinds) /\ hist.dst # hist.src /\ hist.pre.ptr[hist.src] # Null) =>
    /\ ~Bool(hist.src)
    /\ get(hist.dst) = StaticCast(hist.pre.ptr[hist.src], ElemType(hist.dst))
    /\ get(hist.dst).obj = SrcObj
    /\ objState[SrcObj] = "live"
    /\ (hist.kind \in MoveAssignKinds /\ hist.pre.ptr[hist.dst] # Null
        /\ DstObj # SrcObj) =>
         /\ hist.pre.count[DstObj] > 1 =>
              (count[DstObj] = hist.pre.count[DstObj] - 1
               /\ objState[DstObj] = "live")
         /\ hist.pre.count[DstObj] = 1 =>
              (objState[DstObj] = "destroyed" /\ dtorRuns[DstObj] = 1)

\* C6 as stated: moving h1 (holding o) into a distinct h2 leaves count(o)
\* unchanged, h1 null and h2 holding o; a move assignment releases the
\* reference h2 held before exactly once.
C6_Original ==
  /\ (OpDone(MoveKinds) /\ hist.dst # hist.src /\ hist.pre.ptr[hist.src] # Null)
       => count[SrcObj] = hist.pre.count[SrcObj]
  /\ C6_Handles

\* C6 as amended: count(o) is unchanged unless h2 itself held o before a
\* move assignment; then the reference h2 held is released and count(o)
\* drops by exactly 1.
C6_MoveKeepsCount ==
  /\ (OpDone(MoveKinds) /\ hist.dst # hist.src /\ hist.pre.ptr[hist.src] # Null)
       => count[SrcObj] = hist.pre.count[SrcObj]
            - (IF hist.kind \in MoveAssignKinds /\ DstObj = SrcObj THEN 1 ELSE 0)
  /\ C6_Handles

\* Reached: h2 held the last reference to another object and was
\* move-assigned from h1: that object is destroyed, o's counter is as before.
C6_Witness ==
  /\ OpDone({"move_assign"}) /\ hist.dst # hist.src
  /\ hist.pre.ptr[hist.src] # Null /\ hist.pre.ptr[hist.dst] # Null
  /\ DstObj # SrcObj
  /\ hist.pre.count[DstObj] = 1 /\ objState[DstObj] = "destroyed"
  /\ count[SrcObj] = hist.pre.count[SrcObj]
  /\ ~Bool(hist.src) /\ get(hist.dst).obj = SrcObj

\* C7: detach() returns the pointer held, leaves the handle null and the
\* counter and the object as they were; a handle then constructed from
\* that pointer with add_ref = false holds the object, whose counter has
\* the value it had before the detach.
C7_DetachReattach ==
  /\ (OpDone({"detach"}) /\ hist.pre.ptr[hist.dst] # Null) =>
       /\ hist.arg = hist.pre.ptr[hist.dst]
       /\ ~Bool(hist.dst)
       /\ count[DstObj] = hist.pre.count[DstObj]
       /\ objState[DstObj] = "live"
       /\ detached[DstObj] = hist.pre.detached[DstObj] + 1
  /\ (OpDone({"raw_ctor"}) /\ hist.after.kind = "detach") =>
       /\ get(hist.dst) = hist.arg
       /\ count[hist.arg.obj] = hist.after.n
       /\ objState[hist.arg.obj] = "live"
       /\ detached[hist.arg.obj] = hist.pre.detached[hist.arg.obj] - 1

\* Reached: a reference detached at counter 2 has been re-adopted by a
\* new handle and the counter is 2.
C7_Witness ==
  /\ OpDone({"raw_ctor"}) /\ hist.after.kind = "detach"
  /\ hist.after.n = 2
  /\ count[hist.arg.obj] = 2
  /\ get(hist.dst) = hist.arg

\* C8: h = h and h = std::move(h) on a handle holding o leave count(o)
\* and o as they were and h holding o.
C8_SelfAssign ==
  (OpDone({"copy_assign", "move_assign"}) /\ hist.dst = hist.src
   /\ hist.pre.ptr[hist.dst] # Null) =>
    /\ count[DstObj] = hist.pre.count[DstObj]
    /\ objState[DstObj] = "live"
    /\ dtorRuns[DstObj] = 0
    /\ get(hist.dst) = hist.pre.ptr[hist.dst]
    /\ hLive[hist.dst]

\* Reached: a handle holding the only reference was move-assigned to itself.
C8_Witness ==
  /\ OpDone({"move_assign"}) /\ hist.dst = hist.src
  /\ hist.pre.ptr[hist.dst] # Null
  /\ hist.pre.count[DstObj] = 1 /\ count[DstObj] = 1
  /\ get(hist.dst).obj = DstObj

ConvKinds ==
  {"conv_copy_ctor", "conv_copy_assign", "conv_move_ctor", "conv_move_assign"}
ConvCopyKinds == {"conv_copy_ctor", "conv_copy_assign"}

\* The identity half of C9: the converted handle holds the object the
\* source held, seen through the destination's element type.
C9_Identity ==
  (OpDone(ConvKinds) /\ hist.pre.ptr[hist.src] # Null) =>
    /\ get(hist.dst).obj = SrcObj
    /\ get(hist.dst).view = ElemType(hist.dst)
    /\ objState[SrcObj] = "live"

\* C9 as stated: a converting copy or move, by construction or by
\* assignment, yields a handle on the same object and does not change
\* that object's counter.
C9_Original ==
  /\ C9_Identity
  /\ (OpDone(ConvKinds) /\ hist.pre.ptr[hist.src] # Null) =>
       count[SrcObj] = hist.pre.count[SrcObj]

\* C9 as amended: a converting copy takes one reference (counter + 1), a
\* converting move takes none, and an assignment also releases the
\* reference the destination held (counter - 1 when it held that object).
C9_ConvertKeepsIdentity ==
  /\ C9_Identity
  /\ (OpDone(ConvKinds) /\ hist.pre.ptr[hist.src] # Null) =>
       count[SrcObj] = hist.pre.count[SrcObj]
         + (IF hist.kind \in ConvCopyKinds THEN 1 ELSE 0)
         - (IF hist.kind \in {"conv_copy_assign", "conv_move_assign"}
               /\ DstObj = SrcObj THEN 1 ELSE 0)

\* Reached: an intrusive_ptr<Base> was copy-constructed from an
\* intrusive_ptr<Derived>; both hold the same object, counter 1 -> 2.
C9_Witness ==
  /\ OpDone({"conv_copy_ctor"}) /\ hist.pre.ptr[hist.src] # Null
  /\ get(hist.dst).obj = get(hist.src).obj
  /\ get(hist.dst).view = "Base" /\ get(hist.src).view = "Derived"
  /\ hist.pre.count[SrcObj] = 1 /\ count[SrcObj] = 2

\* C10: a handle constructed from a raw pointer p with add_ref = true and
\* then destroyed has taken one reference and released one: p's counter is
\* what it was before the construction and p is alive if that was not 0,
\* and p is destroyed (once) if it was 0.
C10_CtorDtorPair ==
  (OpDone({"dtor"}) /\ hist.after.kind = "raw_ctor") =>
    /\ hist.pre.count[DstObj] = hist.after.n + 1
    /\ IF hist.after.n = 0
       THEN objState[DstObj] = "destroyed" /\ dtorRuns[DstObj] = 1
       ELSE /\ count[DstObj] = hist.after.n
            /\ objState[DstObj] = "live"
            /\ dtorRuns[DstObj] = 0

\* Reached: the handle was constructed on a fresh object (counter 0) and
\* destroyed, and the object is destroyed.
C10_Witness ==
  /\ OpDone({"dtor"}) /\ hist.after.kind = "raw_ctor"
  /\ hist.after.n = 0
  /\ objState[DstObj] = "destroyed"

\* C11: reset() releases the reference held (destroying the object iff it
\* was the last) and leaves the handle null; reset(r) and reset(r, add_ref)
\* release the reference held exactly once and leave the handle holding r,
\* r's counter being incremented iff r is non-null and the reference is
\* taken; whatever the old pointer, r and the flag are.
C11_Reset ==
  OpDone({"reset", "reset_ptr", "reset_ptr_flag"}) =>
    /\ get(hist.dst) = (IF hist.kind = "reset" THEN Null ELSE hist.arg)
    /\ hLive[hist.dst]
    /\ \A o \in Objs :
         LET rel == IF DstObj = o THEN 1 ELSE 0
             acqd == IF hist.kind # "reset" /\ hist.arg.obj = o /\ hist.acq
                     THEN 1 ELSE 0
             n == hist.pre.count[o] - rel + acqd
         IN IF rel = 1 /\ n = 0
            THEN /\ objState[o] = "destroyed"
                 /\ dtorRuns[o] = hist.pre.dtorRuns[o] + 1
            ELSE /\ count[o] = n
                 /\ objState[o] = hist.pre.objState[o]
                 /\ dtorRuns[o] = hist.pre.dtorRuns[o]

\* Reached: reset(r) on a handle holding the last reference to another
\* object: that object is destroyed and r's counter is one higher.
C11_Witness ==
  /\ OpDone({"reset_ptr"})
  /\ hist.pre.ptr[hist.dst] # Null /\ hist.arg # Null
  /\ hist.arg.obj # DstObj
  /\ hist.pre.count[DstObj] = 1 /\ objState[DstObj] = "destroyed"
  /\ count[hist.arg.obj] = hist.pre.count[hist.arg.obj] + 1
  /\ get(hist.dst) = hist.arg

\* C14: swap (member and free) exchanges the two handles' pointers in one
\* step and changes nothing else: no counter, no object, no other handle;
\* swapping a handle with itself leaves it as it was.
C14_Swap ==
  (hist.kind \in {"swap", "free_swap"}) =>
    /\ Done
    /\ get(hist.dst) = hist.pre.ptr[hist.src]
    /\ get(hist.src) = hist.pre.ptr[hist.dst]
    /\ \A g \in Handles \ {hist.dst, hist.src} : get(g) = hist.pre.ptr[g]
    /\ hLive = hist.pre.hLive
    /\ count = hist.pre.count
    /\ objState = hist.pre.objState
    /\ dtorRuns = hist.pre.dtorRuns
    /\ detached = hist.pre.detached

\* Reached: two handles holding different objects have been swapped.
C14_Witness ==
  /\ hist.kind \in {"swap", "free_swap"} /\ hist.dst # hist.src
  /\ hist.pre.ptr[hist.dst] # Null /\ hist.pre.ptr[hist.src] # Null
  /\ DstObj # SrcObj
  /\ get(hist.dst).obj = SrcObj /\ get(hist.src).obj = DstObj

AssignKinds == {"copy_assign", "conv_copy_assign", "raw_assign", "reset_ptr"}
\* The object an assignment takes its reference on.
NewObj ==
  IF hist.kind \in {"copy_assign", "conv_copy_assign"}
  THEN SrcObj ELSE hist.arg.obj

\* C16: in copy assignment, converting copy assignment, raw-pointer
\* assignment and reset(r), the reference on the new pointee is taken
\* before the old one is released: until the Release, every counter is its
\* old value plus the reference taken, and the Release observes the
\* counter of the old pointee with that reference included; an object that
\* is both the old and the new pointee is never at 0 and never destroyed.
C16_AddRefBeforeRelease ==
  (hist.kind \in AssignKinds) =>
    \A t \in threads :
      /\ pc[t] \in {"swap", "dtor"} =>
           /\ \A o \in Objs :
                count[o] = hist.pre.count[o] + (IF NewObj = o THEN 1 ELSE 0)
           /\ objState = hist.pre.objState
      /\ pc[t] = "release" =>
           /\ victim[t] = DstObj
           /\ obs[t] = hist.pre.count[DstObj] + (IF NewObj = DstObj THEN 1 ELSE 0)
      /\ (DstObj # NoObj /\ NewObj = DstObj) =>
           /\ count[DstObj] >= 1
           /\ objState[DstObj] = "live"
           /\ dtorRuns[DstObj] = 0

\* Reached: h2 = h1 with both handles on the same object, between the
\* swap and the temporary's destructor: the counter is one higher.
C16_Witness ==
  /\ hist.kind = "copy_assign" /\ hist.dst # hist.src
  /\ DstObj # NoObj /\ SrcObj = DstObj
  /\ pc["t1"] = "dtor"
  /\ count[DstObj] = hist.pre.count[DstObj] + 1

\* C17: destroying or reset()-ing an empty handle calls no Release: no
\* counter changes and nothing is destroyed; a handle that was moved from
\* or detached from is empty, so the reference it gave away is not
\* released by it.
C17_EmptyNoRelease ==
  /\ (hist.kind \in {"dtor", "reset"} /\ hist.pre.ptr[hist.dst] = Null) =>
       /\ Done
       /\ count = hist.pre.count
       /\ objState = hist.pre.objState
       /\ dtorRuns = hist.pre.dtorRuns
  /\ (hist.kind \in {"dtor", "reset"}
      /\ hist.after.kind \in {"moved_from", "detached_from"}) =>
       /\ hist.pre.ptr[hist.dst] = Null
       /\ count = hist.pre.count
       /\ objState = hist.pre.objState

\* Reached: the source of a move has been destroyed and the object, held
\* once by the destination of the move, is alive with counter 1.
C17_Witness ==
  /\ hist.kind = "dtor" /\ hist.after.kind = "moved_from"
  /\ get(hist.after.other) # Null
  /\ count[get(hist.after.other).obj] = 1
  /\ objState[get(hist.after.other).obj] = "live"

DerefKinds == {"deref_star", "deref_arrow"}
\* What holds of a dereference of a non-null handle: the pointer held is
\* what is handed out, and nothing changes.
C12_NonNull ==
  (hist.pre.ptr[hist.dst] # Null) =>
    /\ hist.res = "returned"
    /\ hist.arg = get(hist.dst)
    /\ threads = {"t1"}
    /\ ptr = hist.pre.ptr
    /\ hLive = hist.pre.hLive
    /\ count = hist.pre.count
    /\ objState = hist.pre.objState

\* C12 as stated: operator* and operator-> fail with an assertion
\* violation exactly when the handle is null.
C12_Original ==
  OpDone(DerefKinds) =>
    /\ (hist.res = "assert_failed") <=> (hist.pre.ptr[hist.dst] = Null)
    /\ C12_NonNull

\* C12: in a build without NDEBUG, operator* and operator-> fail with an
\* assertion violation exactly when the handle is null; in every build a
\* dereference of a non-null handle returns the pointee held and changes
\* neither the handle nor any counter.
C12_Deref ==
  OpDone(DerefKinds) =>
    /\ ~world.ndebug =>
         ((hist.res = "assert_failed") <=> (hist.pre.ptr[hist.dst] = Null))
    /\ C12_NonNull

\* Reached: a null handle was dereferenced with assertions on, and the
\* program has stopped on the assertion.
C12_Witness ==
  /\ OpDone(DerefKinds)
  /\ ~world.ndebug
  /\ hist.pre.ptr[hist.dst] = Null
  /\ hist.res = "assert_failed"
  /\ threads = {}

\* The object a pointer refers to; NoObj for the null pointer.
Referent(p) == p.obj

\* C13: a == b is true iff both handles refer to the same object or both
\* are null, and a != b is its negation; likewise for a handle and a raw
\* pointer in either order; handles to two distinct objects never compare
\* equal, whatever the objects' contents; a comparison changes nothing.
C13_Equality ==
  /\ OpDone({"eq_hh", "ne_hh"}) =>
       hist.res = ((hist.kind = "eq_hh")
                   <=> (Referent(get(hist.dst)) = Referent(get(hist.src))))
  /\ OpDone({"eq_hr", "ne_hr", "eq_rh", "ne_rh"}) =>
       hist.res = ((hist.kind \in {"eq_hr", "eq_rh"})
                   <=> (Referent(get(hist.dst)) = Referent(hist.arg)))
  /\ OpDone({"eq_hh", "ne_hh", "eq_hr", "ne_hr", "eq_rh", "ne_rh"}) =>
       /\ ptr = hist.pre.ptr
       /\ count = hist.pre.count
       /\ objState = hist.pre.objState

\* Reached: a handle to Base and a handle to Derived that hold the same
\* object have been compared and found equal.
C13_Witness ==
  /\ OpDone({"eq_hh"})
  /\ ElemType(hist.dst) # ElemType(hist.src)
  /\ get(hist.dst) # Null
  /\ Referent(get(hist.dst)) = Referent(get(hist.src))
  /\ hist.res = TRUE

\* C15 as stated: a default- or copy-constructed counted object starts at
\* count 0, copy construction leaves the source's count as it was, and
\* copy assignment changes the count of neither object (and comes back).
C15_Original ==
  /\ OpDone({"new"}) => count[hist.arg.obj] = 0
  /\ OpDone({"counter_copy"}) =>
       /\ count[hist.arg.obj] = 0
       /\ count[hist.res] = hist.pre.count[hist.res]
  /\ OpDone({"counter_assign"}) =>
       /\ threads = {"t1"}
       /\ count = hist.pre.count

\* Every reference counted in o's counter is one somebody holds: the
\* counter got its value through AddRef alone.
ReachedByAddRef(o) == count[o] = HandlesOn(o) + detached[o]

\* C18 as stated: use_count() returns exactly the counter, for every value
\* the counter reaches through AddRef, and reading changes no state.
C18_Original ==
  (OpDone({"use_count"}) /\ ReachedByAddRef(hist.arg.obj)) =>
    /\ hist.res = count[hist.arg.obj]
    /\ count = hist.pre.count
    /\ objState = hist.pre.objState

\* The object held by the handle the last operation destroyed or reset.
Adopted == hist.pre.ptr[hist.dst].obj

\* C19: a handle constructed with add_ref = false on an object whose
\* counter is 0 is destroyed or reset: the Release observes 0, the object
\* is not destroyed, and the counter wraps to 2^w - 1.
C19_AdoptUnheld ==
  (hist.kind \in {"dtor", "reset"} /\ hist.after.kind = "adopt_unheld") =>
    /\ hist.after.n = 0
    /\ objState[Adopted] = "live"
    /\ dtorRuns[Adopted] = 0
    /\ \A t \in threads :
         /\ pc[t] \in {"swap", "dtor"} => count[Adopted] = 0
         /\ pc[t] = "release" =>
              /\ victim[t] = Adopted
              /\ obs[t] = 0
              /\ count[Adopted] = CounterMod - 1
         /\ pc[t] = "idle" => count[Adopted] = CounterMod - 1

\* Reached: the handle that adopted an unheld object has been reset, the
\* Release has returned, and the object is alive with all bits set.
C19_Witness ==
  /\ OpDone({"reset"})
  /\ hist.after.kind = "adopt_unheld"
  /\ objState[Adopted] = "live"
  /\ count[Adopted] = CounterMod - 1
  /\ get(hist.dst) = Null

====
